---- MODULE Spec2Model ----
(***************************************************************************)
(* Model of the crossword builder of build_oscars_crossword.js:            *)
(* main -> buildGrid (seed, bestPlacement / fallback, placeWordAt) ->      *)
(* buildJson (dense grid, start index, numbering scan, coverage check) ->  *)
(* writeFileSync.                                                          *)
(*                                                                         *)
(* An answer is a sequence of one-letter strings.  Code indices are        *)
(* 0-based; TLA+ sequences are 1-based, so answer[i] of the code is        *)
(* answer[i + 1] here.  Entry indices keep the code's 0-based numbering.   *)
(* The sparse grid (a JS Map) is a record [keys, at]: keys is the sequence  *)
(* of coordinates <<r, c>> in insertion order, at maps a coordinate to     *)
(* its letter.                                                             *)
(***************************************************************************)
EXTENDS Integers, Sequences, FiniteSets, TLC

\* ---------------------------------------------------------------- bounds
MaxLen == 2
MaxEntries == 3

Letters == {"A", "C"}

\* every answer over Letters of length 1..MaxLen
Words == UNION {[1..n -> Letters] : n \in 1..MaxLen}

\* one longer answer, so that candidates of different scores occur among the
\* short ones
ACA == <<"A", "C", "A">>
LongWords == {ACA}

\* the vocabulary of the documented scenario, and a word sharing no letter
CAT == <<"C", "A", "T">>
ACE == <<"A", "C", "E">>
OX == <<"O", "X">>
ScenarioWords == {CAT, ACE, OX}

ClueTexts == <<"Feline pet", "Top card">>

\* readCsv keeps only entries with a non-empty A-Z answer; the clue text of
\* the i-th line is an arbitrary string, distinct lines get distinct texts here.
readCsv(answers) ==
  [i \in 1..Len(answers) |->
     [answer |-> answers[i],
      clue |-> IF i <= Len(ClueTexts) THEN ClueTexts[i] ELSE ToString(i)]]

EntryLists(W) == UNION {[1..n -> W] : n \in 0..MaxEntries}

VARIABLES entries, grid, placed, minRow, maxRow, minCol, maxCol,
          order, pc, error, puzzle, written,
          cellMap, value, classList, clueActive, status,
          currentDirection, currentCellKey, focused

vars == <<entries, grid, placed, minRow, maxRow, minCol, maxCol,
          order, pc, error, puzzle, written,
          cellMap, value, classList, clueActive, status,
          currentDirection, currentCellKey, focused>>

\* the page of src/app.js: cellMap, the input values, the CSS classes of the
\* cells and of the clue items, the status line, the two cursors and the
\* cell that has the keyboard focus
pageVars == <<cellMap, value, classList, clueActive, status,
              currentDirection, currentCellKey, focused>>

gridVars == <<grid, placed, minRow, maxRow, minCol, maxCol>>

\* ------------------------------------------------------------ sparse grid
NoLetter == ""

EmptyMap == [keys |-> <<>>, at |-> <<>>]

size(g) == Len(g.keys)

has(r, c) == <<r, c>> \in DOMAIN grid.at

get(r, c) == IF has(r, c) THEN grid.at[<<r, c>>] ELSE NoLetter

\* Map.set: an existing key keeps its position, a new key is appended.
gridSet(g, r, c, ch) ==
  IF <<r, c>> \in DOMAIN g.at
    THEN [g EXCEPT !.at[<<r, c>>] = ch]
    ELSE [keys |-> Append(g.keys, <<r, c>>), at |-> (<<r, c>> :> ch) @@ g.at]

Min(a, b) == IF a < b THEN a ELSE b
Max(a, b) == IF a > b THEN a ELSE b
Abs(x) == IF x < 0 THEN -x ELSE x

cellRow(row, dir, i) == IF dir = "across" THEN row ELSE row + i
cellCol(col, dir, i) == IF dir = "across" THEN col + i ELSE col

\* ---------------------------------------------------------------- canPlace
Null == [ok |-> FALSE, intersections |-> 0, score |-> 0,
         bounds |-> [newMinRow |-> 0, newMaxRow |-> 0, newMinCol |-> 0, newMaxCol |-> 0]]

\* mutant: the cells before the start and after the end are not tested
endsBlocked_dropped(answer, row, col, dir) == FALSE

\* "Start/end must be bounded by empty space"
endsBlocked(answer, row, col, dir) ==
  IF dir = "across"
    THEN has(row, col - 1) \/ has(row, col + Len(answer))
    ELSE has(row - 1, col) \/ has(row + Len(answer), col)

\* mutant: the letter test is dropped
letterConflict_dropped(existing, ch) == FALSE

\* the letter test of one target cell that already holds a letter
letterConflict(existing, ch) == existing # ch

\* mutant: only the neighbour above (across) or to the left (down) is tested
sideTouch_oneSide(r, c, dir) ==
  IF dir = "across" THEN has(r - 1, c) ELSE has(r, c - 1)

\* the side-by-side test of one empty target cell
sideTouch(r, c, dir) ==
  IF dir = "across"
    THEN has(r - 1, c) \/ has(r + 1, c)
    ELSE has(r, c - 1) \/ has(r, c + 1)

\* mutant: the crossing requirement is dropped
noCrossing_dropped(intersections) == intersections < 0

\* "Require at least one crossing when attaching to existing grid"
noCrossing(intersections) == size(grid) > 0 /\ intersections = 0

\* mutant: the aspect penalty loses its weight of 5
score_unweightedAspect(intersections, b) ==
  LET height == b.newMaxRow - b.newMinRow + 1
      width == b.newMaxCol - b.newMinCol + 1
  IN intersections * 1000 - height * width - Abs(width - height)

score(intersections, b) ==
  LET height == b.newMaxRow - b.newMinRow + 1
      width == b.newMaxCol - b.newMinCol + 1
      area == height * width
      aspectPenalty == Abs(width - height)
  IN intersections * 1000 - area - aspectPenalty * 5

RECURSIVE canPlaceLoop(_, _, _, _, _, _, _)
canPlaceLoop(answer, row, col, dir, i, intersections, b) ==
  IF i >= Len(answer)
    THEN IF noCrossing(intersections)
           THEN Null
           ELSE [ok |-> TRUE, intersections |-> intersections,
                 score |-> score(intersections, b), bounds |-> b]
    ELSE
      LET r == cellRow(row, dir, i)
          c == cellCol(col, dir, i)
          existing == get(r, c)
          ch == answer[i + 1]
          nb == [newMinRow |-> Min(r, b.newMinRow), newMaxRow |-> Max(r, b.newMaxRow),
                 newMinCol |-> Min(c, b.newMinCol), newMaxCol |-> Max(c, b.newMaxCol)]
      IN IF existing # NoLetter
           THEN IF letterConflict(existing, ch)
                  THEN Null
                  ELSE canPlaceLoop(answer, row, col, dir, i + 1, intersections + 1, nb)
           ELSE IF sideTouch(r, c, dir)
                  THEN Null
                  ELSE canPlaceLoop(answer, row, col, dir, i + 1, intersections, nb)

canPlace(answer, row, col, dir) ==
  IF endsBlocked(answer, row, col, dir)
    THEN Null
    ELSE canPlaceLoop(answer, row, col, dir, 0, 0,
                      [newMinRow |-> minRow, newMaxRow |-> maxRow,
                       newMinCol |-> minCol, newMaxCol |-> maxCol])

\* ------------------------------------------------------------- placeWordAt
\* mutant: the test is made on the empty grid only, so nothing is thrown
placeThrows_neverOnLetters(answer, row, col, dir) ==
  LET ok == canPlace(answer, row, col, dir).ok \/ size(grid) > 0
  IN ~ok /\ size(grid) = 0

\* ok = canPlace(...) || (grid.size === 0 ? {...} : null);  throws when
\* !ok && grid.size > 0, before anything is written.
placeThrows(answer, row, col, dir) ==
  LET ok == canPlace(answer, row, col, dir).ok \/ size(grid) = 0
  IN ~ok /\ size(grid) > 0

\* mutant: the column bounds are not widened
RECURSIVE writeCells_rowsOnly(_, _, _, _, _, _)
writeCells_rowsOnly(st, answer, row, col, dir, i) ==
  IF i >= Len(answer)
    THEN st
    ELSE LET r == cellRow(row, dir, i)
             c == cellCol(col, dir, i)
         IN writeCells_rowsOnly([grid |-> gridSet(st.grid, r, c, answer[i + 1]),
                                 minRow |-> Min(r, st.minRow), maxRow |-> Max(r, st.maxRow),
                                 minCol |-> st.minCol, maxCol |-> st.maxCol],
                                answer, row, col, dir, i + 1)

RECURSIVE writeCells(_, _, _, _, _, _)
writeCells(st, answer, row, col, dir, i) ==
  IF i >= Len(answer)
    THEN st
    ELSE LET r == cellRow(row, dir, i)
             c == cellCol(col, dir, i)
         IN writeCells([grid |-> gridSet(st.grid, r, c, answer[i + 1]),
                        minRow |-> Min(r, st.minRow), maxRow |-> Max(r, st.maxRow),
                        minCol |-> Min(c, st.minCol), maxCol |-> Max(c, st.maxCol)],
                       answer, row, col, dir, i + 1)

placeWordAt(index, answer, row, col, dir) ==
  IF placeThrows(answer, row, col, dir)
    THEN /\ error' = [kind |-> "InvalidPlacement", missing |-> <<>>]
         /\ pc' = "error"
         /\ UNCHANGED gridVars
    ELSE LET st == writeCells([grid |-> grid, minRow |-> minRow, maxRow |-> maxRow,
                               minCol |-> minCol, maxCol |-> maxCol],
                              answer, row, col, dir, 0)
         IN /\ grid' = st.grid
            /\ minRow' = st.minRow
            /\ maxRow' = st.maxRow
            /\ minCol' = st.minCol
            /\ maxCol' = st.maxCol
            /\ placed' = Append(placed, [index |-> index, row |-> row, col |-> col,
                                         dir |-> dir, answer |-> answer])
            /\ pc' = "buildGrid"
            /\ UNCHANGED error

\* ----------------------------------------------------------- bestPlacement
NoPlacement == [found |-> FALSE, row |-> 0, col |-> 0, dir |-> "across", score |-> 0]

\* mutant: the first valid candidate is kept whatever the later scores
better_firstValid(check, best) == check.ok /\ ~best.found

\* mutant: a later candidate with an equal score replaces the best
better_orEqual(check, best) == check.ok /\ (~best.found \/ check.score >= best.score)

\* "check && (!best || check.score > best.score)"
better(check, best) == check.ok /\ (~best.found \/ check.score > best.score)

tryCandidate(answer, row, col, dir, best) ==
  LET check == canPlace(answer, row, col, dir)
  IN IF better(check, best)
       THEN [found |-> TRUE, row |-> row, col |-> col, dir |-> dir, score |-> check.score]
       ELSE best

\* n enumerates (i, cell) pairs: i outer (answer index), existing cells inner.
RECURSIVE bestLoop(_, _, _)
bestLoop(answer, n, best) ==
  IF n >= Len(answer) * size(grid)
    THEN best
    ELSE LET i == n \div size(grid)
             cellKey == grid.keys[(n % size(grid)) + 1]
             gr == cellKey[1]
             gc == cellKey[2]
         IN IF grid.at[cellKey] # answer[i + 1]
              THEN bestLoop(answer, n + 1, best)
              ELSE LET b1 == tryCandidate(answer, gr, gc - i, "across", best)
                       b2 == tryCandidate(answer, gr - i, gc, "down", b1)
                   IN bestLoop(answer, n + 1, b2)

bestPlacement(answer) ==
  IF size(grid) = 0 THEN NoPlacement ELSE bestLoop(answer, 0, NoPlacement)

\* ------------------------------------------------------------------- order
\* entries.map((e, idx) => ({idx, len})).sort((a, b) => b.len - a.len):
\* a stable sort, longest first.  comesBefore(a, b): a must precede b.
\* mutant: equal lengths are reordered (an unstable comparison)
comesBefore_unstable(a, b) == b.len - a.len <= 0

comesBefore(a, b) == b.len - a.len < 0

RECURSIVE insertSorted(_, _)
insertSorted(s, item) ==
  IF s = <<>>
    THEN <<item>>
    ELSE IF comesBefore(item, s[Len(s)])
           THEN Append(insertSorted(SubSeq(s, 1, Len(s) - 1), item), s[Len(s)])
           ELSE Append(s, item)

RECURSIVE sortFrom(_, _, _)
sortFrom(es, k, acc) ==
  IF k > Len(es)
    THEN acc
    ELSE sortFrom(es, k + 1, insertSorted(acc, [idx |-> k - 1, len |-> Len(es[k].answer)]))

sortedOrder(es) == sortFrom(es, 1, <<>>)

\* --------------------------------------------------------------- buildJson
NoNumber == 0

\* mutant: the coordinates are copied without the translation
letterAt_untranslated == grid

\* letterAt: the sparse grid translated by (minRow, minCol)
letterAt ==
  [keys |-> [k \in 1..size(grid) |->
               <<grid.keys[k][1] - minRow, grid.keys[k][2] - minCol>>],
   at |-> [rc \in {<<k[1] - minRow, k[2] - minCol>> : k \in DOMAIN grid.at} |->
             grid.at[<<rc[1] + minRow, rc[2] + minCol>>]]]

\* letterAt.has(key(r, c)) of the numbering scan, read through the
\* translation instead of a copy of the map
hasLetter(r, c) == <<r + minRow, c + minCol>> \in DOMAIN grid.at

\* la.get(key(r, c)) on the translated map la
letterAtGet(la, r, c) == IF <<r, c>> \in DOMAIN la THEN la[<<r, c>>] ELSE NoLetter

jsonRows == maxRow - minRow + 1
jsonCols == maxCol - minCol + 1

\* the dense matrix before numbering
gridJson ==
  [rc \in (0..(jsonRows - 1)) \X (0..(jsonCols - 1)) |->
     LET ch == letterAtGet(letterAt.at, rc[1], rc[2])
     IN IF ch # NoLetter
          THEN [row |-> rc[1], col |-> rc[2], solution |-> ch,
                isBlock |-> FALSE, number |-> NoNumber]
          ELSE [row |-> rc[1], col |-> rc[2], solution |-> NoLetter,
                isBlock |-> TRUE, number |-> NoNumber]]

\* startToEntry: "r,c,dir" -> { index, entry }, a sequence of bindings;
\* dup is set as soon as a start key is met a second time.
RECURSIVE startIndexLoop(_, _)
startIndexLoop(k, map) ==
  IF k > Len(placed)
    THEN [dup |-> FALSE, map |-> map]
    ELSE LET p == placed[k]
             sr == p.row - minRow
             sc == p.col - minCol
         IN IF \E m \in 1..Len(map) : map[m].r = sr /\ map[m].c = sc /\ map[m].dir = p.dir
              THEN [dup |-> TRUE, map |-> map]
              ELSE startIndexLoop(k + 1,
                     Append(map, [r |-> sr, c |-> sc, dir |-> p.dir, index |-> p.index]))

startToEntry == startIndexLoop(1, <<>>)

NoEntry == -1

startLookup(map, r, c, dir) ==
  IF \E m \in 1..Len(map) : map[m].r = r /\ map[m].c = c /\ map[m].dir = dir
    THEN map[CHOOSE m \in 1..Len(map) : map[m].r = r /\ map[m].c = c /\ map[m].dir = dir].index
    ELSE NoEntry

\* mutant: a lettered cell with nothing to its left starts an across run
\* even when nothing follows it
startsAcross_singleCell(r, c) == ~hasLetter(r, c - 1)

startsAcross(r, c) == ~hasLetter(r, c - 1) /\ hasLetter(r, c + 1)
startsDown(r, c) == ~hasLetter(r - 1, c) /\ hasLetter(r + 1, c)

\* mutant: clueNumber is not incremented
assignNumber_noIncrement(acc, r, c) ==
  [acc EXCEPT !.num = acc.clueNumber,
              !.numbered = (<<r, c>> :> acc.clueNumber) @@ acc.numbered,
              !.grid = [acc.grid EXCEPT ![<<r, c>>].number = acc.clueNumber]]

\* assignNumber: reuse the number of an already numbered cell, else take
\* clueNumber and increment it; the number is also stored on the grid cell.
assignNumber(acc, r, c) ==
  IF <<r, c>> \in DOMAIN acc.numbered
    THEN [acc EXCEPT !.num = acc.numbered[<<r, c>>]]
    ELSE [acc EXCEPT !.num = acc.clueNumber,
                     !.clueNumber = acc.clueNumber + 1,
                     !.numbered = (<<r, c>> :> acc.clueNumber) @@ acc.numbered,
                     !.grid = [acc.grid EXCEPT ![<<r, c>>].number = acc.clueNumber]]

RECURSIVE takeRunLoop(_, _, _, _)
takeRunLoop(rr, cc, dir, cells) ==
  IF rr >= 0 /\ cc >= 0 /\ rr < jsonRows /\ cc < jsonCols /\ hasLetter(rr, cc)
    THEN takeRunLoop(IF dir = "across" THEN rr ELSE rr + 1,
                     IF dir = "across" THEN cc + 1 ELSE cc,
                     dir, Append(cells, [row |-> rr, col |-> cc]))
    ELSE cells

\* mutant: the run is always walked along the row
takeRun_alwaysAcross(r, c, dir) == takeRunLoop(r, c, "across", <<>>)

takeRun(r, c, dir) == takeRunLoop(r, c, dir, <<>>)

\* one (r, c) iteration of the numbering scan, after the start tests
scanAcross(acc, map, r, c) ==
  IF ~startsAcross(r, c) \/ acc.err # ""
    THEN acc
    ELSE LET mapped == startLookup(map, r, c, "across")
         IN IF mapped = NoEntry
              THEN [acc EXCEPT !.err = "MissingAcross"]
              ELSE [acc EXCEPT !.used = acc.used \cup {mapped},
                               !.across = Append(acc.across,
                                  [number |-> acc.num, text |-> entries[mapped + 1].clue,
                                   cells |-> takeRun(r, c, "across")])]

scanDown(acc, map, r, c) ==
  IF ~startsDown(r, c) \/ acc.err # ""
    THEN acc
    ELSE LET mapped == startLookup(map, r, c, "down")
         IN IF mapped = NoEntry
              THEN [acc EXCEPT !.err = "MissingDown"]
              ELSE [acc EXCEPT !.used = acc.used \cup {mapped},
                               !.down = Append(acc.down,
                                  [number |-> acc.num, text |-> entries[mapped + 1].clue,
                                   cells |-> takeRun(r, c, "down")])]

\* the row-major scan; n enumerates the cells, r outer and c inner
RECURSIVE scanLoop(_, _, _)
scanLoop(acc, map, n) ==
  IF n >= jsonRows * jsonCols \/ acc.err # ""
    THEN acc
    ELSE LET r == n \div jsonCols
             c == n % jsonCols
         IN IF ~hasLetter(r, c) \/ (~startsAcross(r, c) /\ ~startsDown(r, c))
              THEN scanLoop(acc, map, n + 1)
              ELSE scanLoop(scanDown(scanAcross(assignNumber(acc, r, c), map, r, c),
                                     map, r, c),
                            map, n + 1)

scanResult(map) ==
  scanLoop([clueNumber |-> 1, numbered |-> <<>>, num |-> NoNumber, grid |-> gridJson,
            across |-> <<>>, down |-> <<>>, used |-> {}, err |-> ""], map, 0)

\* mutant: the coverage test only fires on too many used entries
notAllUsed_onlyMore(used) == Cardinality(used) > Len(entries)

\* "usedEntries.size !== entries.length"
notAllUsed(used) == Cardinality(used) # Len(entries)

\* the answers listed by the coverage error, in index order
RECURSIVE missingFrom(_, _, _)
missingFrom(used, i, acc) ==
  IF i >= Len(entries)
    THEN acc
    ELSE missingFrom(used, i + 1,
                     IF i \in used THEN acc ELSE Append(acc, entries[i + 1].answer))

NoPuzzle == [rows |-> 0, cols |-> 0, grid |-> <<>>,
             clues |-> [across |-> <<>>, down |-> <<>>]]

NoError == [kind |-> "", missing |-> <<>>]

\* the outcome of buildJson(entries, gridInfo): a puzzle or a thrown error
buildJson ==
  LET idx == startToEntry
  IN IF idx.dup
       THEN [error |-> [kind |-> "DuplicateStart", missing |-> <<>>], puzzle |-> NoPuzzle]
       ELSE LET res == scanResult(idx.map)
            IN IF res.err # ""
                 THEN [error |-> [kind |-> res.err, missing |-> <<>>], puzzle |-> NoPuzzle]
                 ELSE IF notAllUsed(res.used)
                        THEN [error |-> [kind |-> "NotAllUsed",
                                         missing |-> missingFrom(res.used, 0, <<>>)],
                              puzzle |-> NoPuzzle]
                        ELSE [error |-> NoError,
                              puzzle |-> [rows |-> jsonRows, cols |-> jsonCols,
                                          grid |-> res.grid,
                                          clues |-> [across |-> res.across,
                                                     down |-> res.down]]]

\* ----------------------------------------------------------------- actions
InitFrom(lists) ==
  /\ entries \in {readCsv(a) : a \in lists}
  /\ grid = EmptyMap
  /\ placed = <<>>
  /\ minRow = 0 /\ maxRow = 0 /\ minCol = 0 /\ maxCol = 0
  /\ order = <<>>
  /\ pc = "main"
  /\ error = NoError
  /\ puzzle = NoPuzzle
  /\ written = FALSE
  /\ cellMap = <<>>
  /\ value = <<>>
  /\ classList = <<>>
  /\ clueActive = {}
  /\ status = [text |-> "", kind |-> "none"]
  /\ currentDirection = "across"
  /\ currentCellKey = <<>>
  /\ focused = <<>>

InitWith(W) == InitFrom(EntryLists(W))

\* main: "if (!entries.length) { console.error(...); process.exit(1); }"
MainNoEntries ==
  /\ pc = "main"
  /\ Len(entries) = 0
  /\ pc' = "exit"
  /\ UNCHANGED <<entries, gridVars, order, error, puzzle, written>>
  /\ UNCHANGED pageVars

\* buildGrid: sort, then seed with the longest word at the origin, across
Seed ==
  /\ pc = "main"
  /\ Len(entries) > 0
  /\ LET sorted == sortedOrder(entries)
         first == sorted[1]
     IN /\ order' = Tail(sorted)
        /\ placeWordAt(first.idx, entries[first.idx + 1].answer, 0, 0, "across")
  /\ UNCHANGED <<entries, puzzle, written>>
  /\ UNCHANGED pageVars

\* buildGrid loop body when bestPlacement returns a candidate
PlaceBest ==
  /\ pc = "buildGrid"
  /\ order # <<>>
  /\ LET index == order[1].idx
         answer == entries[index + 1].answer
     IN \E placement \in {bestPlacement(answer)} :
          /\ placement.found
          /\ placeWordAt(index, answer, placement.row, placement.col, placement.dir)
  /\ order' = Tail(order)
  /\ UNCHANGED <<entries, puzzle, written>>
  /\ UNCHANGED pageVars

\* buildGrid loop body when bestPlacement returns null: the fallback
Fallback ==
  /\ pc = "buildGrid"
  /\ order # <<>>
  /\ LET index == order[1].idx
         answer == entries[index + 1].answer
         placement == bestPlacement(answer)
         tryRow == maxRow + 2
         tryCol == minCol
     IN /\ ~placement.found
        /\ placeWordAt(index, answer, tryRow, tryCol, "across")
  /\ order' = Tail(order)
  /\ UNCHANGED <<entries, puzzle, written>>
  /\ UNCHANGED pageVars

\* buildGrid returns and main calls buildJson on the result
BuildJson ==
  /\ pc = "buildGrid"
  /\ order = <<>>
  /\ \E out \in {buildJson} :
       /\ error' = out.error
       /\ puzzle' = out.puzzle
       /\ pc' = IF out.error.kind = "" THEN "write" ELSE "error"
  /\ UNCHANGED <<entries, gridVars, order, written>>
  /\ UNCHANGED pageVars

\* main: fs.writeFileSync(OUT_PATH, JSON.stringify(puzzle, null, 2))
WriteFile ==
  /\ pc = "write"
  /\ written' = TRUE
  /\ pc' = "done"
  /\ UNCHANGED <<entries, gridVars, order, error, puzzle>>
  /\ UNCHANGED pageVars

Next ==
  \/ MainNoEntries
  \/ Seed
  \/ PlaceBest
  \/ Fallback
  \/ BuildJson
  \/ WriteFile

Init == InitWith(Words \cup LongWords)

Spec == Init /\ [][Next]_vars

\* the same program run on the scenario vocabulary
InitScenario == InitWith(ScenarioWords)

SpecScenario == InitScenario /\ [][Next]_vars

\* ------------------------------------------------- calls of the closures
\* canPlace, bestPlacement and placeWordAt called on their own, in any state
\* buildGrid is in between two commits, with arguments from a window around
\* the current bounds (canPlace looks one cell beyond the span it is given).
\* pc records how the call returned.

CallsOf(indexes) ==
  {[index |-> i, answer |-> entries[i + 1].answer, row |-> r, col |-> c, dir |-> d] :
     i \in indexes,
     r \in (minRow - 1)..(maxRow + 1),
     c \in (minCol - 1)..(maxCol + 1),
     d \in {"across", "down"}}

ProbeCalls == CallsOf(0..(Len(entries) - 1))

\* the calls placing the entry the loop of buildGrid has reached
NextCalls == CallsOf({order[k].idx : k \in {1} \cap DOMAIN order})

\* mutant: the loop assigns minRow..maxCol instead of newMinRow..newMaxCol
CallCanPlace_assignsBounds ==
  /\ pc = "buildGrid"
  /\ \E a \in ProbeCalls :
       \E check \in {canPlace(a.answer, a.row, a.col, a.dir)} :
         /\ pc' = IF check.ok THEN "canPlaceOk" ELSE "canPlaceNull"
         /\ minRow' = IF check.ok THEN check.bounds.newMinRow ELSE minRow
         /\ maxRow' = IF check.ok THEN check.bounds.newMaxRow ELSE maxRow
         /\ minCol' = IF check.ok THEN check.bounds.newMinCol ELSE minCol
         /\ maxCol' = IF check.ok THEN check.bounds.newMaxCol ELSE maxCol
  /\ UNCHANGED <<entries, grid, placed, order, error, puzzle, written>>
  /\ UNCHANGED pageVars

\* canPlace reads grid and the bounds and assigns only its own locals
CallCanPlace ==
  /\ pc = "buildGrid"
  /\ \E a \in ProbeCalls :
       \E check \in {canPlace(a.answer, a.row, a.col, a.dir)} :
         pc' = IF check.ok THEN "canPlaceOk" ELSE "canPlaceNull"
  /\ UNCHANGED <<entries, gridVars, order, error, puzzle, written>>
  /\ UNCHANGED pageVars

\* bestPlacement copies grid.entries() and calls canPlace
CallBestPlacement ==
  /\ pc = "buildGrid"
  /\ \E i \in 1..Len(entries) :
       \E best \in {bestPlacement(entries[i].answer)} :
         pc' = IF best.found THEN "bestFound" ELSE "bestNull"
  /\ UNCHANGED <<entries, gridVars, order, error, puzzle, written>>
  /\ UNCHANGED pageVars

\* placeWordAt called on a non-empty grid with a placement canPlace rejects
CallPlaceWordAtRejected ==
  /\ pc = "buildGrid"
  /\ size(grid) > 0
  /\ \E a \in NextCalls :
       /\ ~canPlace(a.answer, a.row, a.col, a.dir).ok
       /\ placeWordAt(a.index, a.answer, a.row, a.col, a.dir)
  /\ UNCHANGED <<entries, order, puzzle, written>>
  /\ UNCHANGED pageVars

NextProbe ==
  \/ Next
  \/ CallCanPlace
  \/ CallBestPlacement
  \/ CallPlaceWordAtRejected

InitProbe == InitWith(ScenarioWords \cup LongWords)

SpecProbe == InitProbe /\ [][NextProbe]_vars

\* ------------------------------------------ the builder copy in src/app.js
\* app.js 458-755 holds a second buildGrid/buildJson.  It keeps the input
\* order, searches with findPlacement instead of canPlace/bestPlacement and
\* builds the clues from the placement list.  Where a statement is the same
\* as in build_oscars_crossword.js the operator above is used (key, the cell
\* writing loop, letterAt, gridJson, the main guard and the file write).

\* placeWordAt (app.js): "existing && existing !== ch" on some cell
conflictApp(answer, row, col, dir) ==
  \E i \in 0..(Len(answer) - 1) :
    get(cellRow(row, dir, i), cellCol(col, dir, i)) \notin {NoLetter, answer[i + 1]}

placeWordAtApp(index, answer, row, col, dir) ==
  IF conflictApp(answer, row, col, dir)
    THEN /\ error' = [kind |-> "ForcedConflict", missing |-> <<>>]
         /\ pc' = "error"
         /\ UNCHANGED gridVars
    ELSE LET st == writeCells([grid |-> grid, minRow |-> minRow, maxRow |-> maxRow,
                               minCol |-> minCol, maxCol |-> maxCol],
                              answer, row, col, dir, 0)
         IN /\ grid' = st.grid
            /\ minRow' = st.minRow
            /\ maxRow' = st.maxRow
            /\ minCol' = st.minCol
            /\ maxCol' = st.maxCol
            /\ placed' = Append(placed, [index |-> index, row |-> row, col |-> col,
                                         dir |-> dir, answer |-> answer])
            /\ pc' = "buildGrid"
            /\ UNCHANGED error

\* findPlacement: the letters of the span already on the grid
touches(answer, row, col, dir) ==
  Cardinality({j \in 0..(Len(answer) - 1) :
                 get(cellRow(row, dir, j), cellCol(col, dir, j)) = answer[j + 1]})

\* "touches * 1000 - area" on the bounds widened by the span
scoreApp(answer, row, col, dir) ==
  LET last == Len(answer) - 1
      height == Max(maxRow, cellRow(row, dir, last)) - Min(minRow, row) + 1
      width == Max(maxCol, cellCol(col, dir, last)) - Min(minCol, col) + 1
  IN touches(answer, row, col, dir) * 1000 - height * width

dirsFor(preferDir) ==
  IF preferDir = "down" THEN <<"down", "across">> ELSE <<"across", "down">>

\* the loops of findPlacement flattened: n counts (i, cell, dir) in
\* iteration order, i outermost and dir innermost
RECURSIVE findLoop(_, _, _, _)
findLoop(answer, dirs, n, best) ==
  IF n >= 2 * Len(answer) * size(grid)
    THEN best
    ELSE LET i == (n \div 2) \div size(grid)
             cellKey == grid.keys[((n \div 2) % size(grid)) + 1]
             dir == dirs[(n % 2) + 1]
             row == IF dir = "across" THEN cellKey[1] ELSE cellKey[1] - i
             col == IF dir = "across" THEN cellKey[2] - i ELSE cellKey[2]
         IN IF \/ grid.at[cellKey] # answer[i + 1]
               \/ conflictApp(answer, row, col, dir)
               \/ touches(answer, row, col, dir) = 0
              THEN findLoop(answer, dirs, n + 1, best)
              ELSE LET sc == scoreApp(answer, row, col, dir)
                   IN IF ~best.found \/ sc > best.score
                        THEN findLoop(answer, dirs, n + 1,
                                      [found |-> TRUE, row |-> row, col |-> col,
                                       dir |-> dir, score |-> sc])
                        ELSE findLoop(answer, dirs, n + 1, best)

findPlacement(answer, preferDir) ==
  IF size(grid) = 0 THEN NoPlacement ELSE findLoop(answer, dirsFor(preferDir), 0, NoPlacement)

\* "index % 2 === 0 ? 'down' : 'across'"
preferDirOf(index) == IF index % 2 = 0 THEN "down" ELSE "across"

\* buildJson (app.js): the cell before the start, inside the matrix, is lettered
notAStart(sr, sc, dir) ==
  IF dir = "across"
    THEN sc - 1 >= 0 /\ hasLetter(sr, sc - 1)
    ELSE sr - 1 >= 0 /\ hasLetter(sr - 1, sc)

spanCells(sr, sc, dir, len) ==
  [i \in 1..len |-> [row |-> cellRow(sr, dir, i - 1), col |-> cellCol(sc, dir, i - 1)]]

\* "for (const p of placed)": a placement that is not a start is skipped
RECURSIVE cluesLoop(_, _)
cluesLoop(acc, k) ==
  IF k > Len(placed)
    THEN acc
    ELSE LET p == placed[k]
             sr == p.row - minRow
             sc == p.col - minCol
         IN IF notAStart(sr, sc, p.dir)
              THEN cluesLoop(acc, k + 1)
              ELSE LET numbered == assignNumber(acc, sr, sc)
                       clue == [number |-> numbered.num,
                                text |-> entries[p.index + 1].clue,
                                cells |-> spanCells(sr, sc, p.dir, Len(p.answer))]
                   IN cluesLoop(IF p.dir = "across"
                                  THEN [numbered EXCEPT !.across = Append(numbered.across, clue)]
                                  ELSE [numbered EXCEPT !.down = Append(numbered.down, clue)],
                                k + 1)

\* buildJson (app.js) has no throw: it always returns a puzzle
buildJsonApp ==
  LET res == cluesLoop([clueNumber |-> 1, numbered |-> <<>>, num |-> NoNumber,
                        grid |-> gridJson, across |-> <<>>, down |-> <<>>], 1)
  IN [rows |-> jsonRows, cols |-> jsonCols, grid |-> res.grid,
      clues |-> [across |-> res.across, down |-> res.down]]

\* entries.forEach, index 0: the first entry across at the origin
SeedApp ==
  /\ pc = "main"
  /\ Len(entries) > 0
  /\ order' = [k \in 1..(Len(entries) - 1) |-> [idx |-> k, len |-> Len(entries[k + 1].answer)]]
  /\ placeWordAtApp(0, entries[1].answer, 0, 0, "across")
  /\ UNCHANGED <<entries, puzzle, written>>
  /\ UNCHANGED pageVars

\* entries.forEach, index > 0, findPlacement returned a placement
PlaceFound ==
  /\ pc = "buildGrid"
  /\ order # <<>>
  /\ LET index == order[1].idx
         answer == entries[index + 1].answer
     IN \E placement \in {findPlacement(answer, preferDirOf(index))} :
          /\ placement.found
          /\ placeWordAtApp(index, answer, placement.row, placement.col, placement.dir)
  /\ order' = Tail(order)
  /\ UNCHANGED <<entries, puzzle, written>>
  /\ UNCHANGED pageVars

\* entries.forEach, index > 0, findPlacement returned null
FallbackApp ==
  /\ pc = "buildGrid"
  /\ order # <<>>
  /\ LET index == order[1].idx
         answer == entries[index + 1].answer
     IN /\ ~findPlacement(answer, preferDirOf(index)).found
        /\ placeWordAtApp(index, answer, maxRow + 2, 0, "across")
  /\ order' = Tail(order)
  /\ UNCHANGED <<entries, puzzle, written>>
  /\ UNCHANGED pageVars

\* main (app.js): buildJson(entries, gridInfo)
BuildJsonApp ==
  /\ pc = "buildGrid"
  /\ order = <<>>
  /\ puzzle' = buildJsonApp
  /\ pc' = "write"
  /\ UNCHANGED <<entries, gridVars, order, error, written>>
  /\ UNCHANGED pageVars

NextApp ==
  \/ MainNoEntries
  \/ SeedApp
  \/ PlaceFound
  \/ FallbackApp
  \/ BuildJsonApp
  \/ WriteFile

SpecApp == Init /\ [][NextApp]_vars

\* ------------------------------------------------- the page of src/app.js
\* The IIFE of app.js: loadPuzzle fetches the written file and initPuzzle
\* builds the cells; afterwards the handlers run one event at a time.  A
\* handler is a function of everything it can reach: the closure variables
\* and the DOM, collected in one record.
NoKey == <<>>

keyFor(row, col) == <<row, col>>

HighlightClasses ==
  {"cw-cell-active", "cw-cell-word-highlight", "cw-cell-correct", "cw-cell-incorrect"}

Page ==
  [puzzle |-> puzzle, cellMap |-> cellMap, value |-> value, classList |-> classList,
   clueActive |-> clueActive, status |-> status,
   currentDirection |-> currentDirection, currentCellKey |-> currentCellKey,
   focused |-> focused]

SetPage(d) ==
  /\ puzzle' = d.puzzle
  /\ cellMap' = d.cellMap
  /\ value' = d.value
  /\ classList' = d.classList
  /\ clueActive' = d.clueActive
  /\ status' = d.status
  /\ currentDirection' = d.currentDirection
  /\ currentCellKey' = d.currentCellKey
  /\ focused' = d.focused

\* String.prototype.toUpperCase on a string of at most one character
toUpperCase(ch) ==
  IF ch = "a" THEN "A" ELSE IF ch = "c" THEN "C" ELSE IF ch = "x" THEN "X" ELSE ch

AZ == {"A", "B", "C", "D", "E", "F", "G", "H", "I", "J", "K", "L", "M",
       "N", "O", "P", "Q", "R", "S", "T", "U", "V", "W", "X", "Y", "Z"}

\* ".toUpperCase().replace(/[^A-Z]/g, '')" on a string of at most one character
normalise(raw) == IF toUpperCase(raw) \in AZ THEN toUpperCase(raw) ELSE ""

\* what a key press can leave in an input of maxLength 1
TypedChars == {"a", "C", "1"}

ArrowKeys == {"ArrowUp", "ArrowDown", "ArrowLeft", "ArrowRight"}

firstOf(S) == CHOOSE x \in S : \A y \in S : x <= y

showStatus(d, message, kind) == [d EXCEPT !.status = [text |-> message, kind |-> kind]]

\* initPuzzle(data): one cellMap entry, one empty input and one div per
\* cell that is not a block; meta.solution is a copy of the cell's letter
initPuzzle(d, data) ==
  LET open == {rc \in DOMAIN data.grid : ~data.grid[rc].isBlock}
  IN [d EXCEPT !.puzzle = data,
               !.cellMap = [k \in open |->
                              [row |-> data.grid[k].row, col |-> data.grid[k].col,
                               solution |-> toUpperCase(data.grid[k].solution)]],
               !.value = [k \in open |-> ""],
               !.classList = [k \in open |-> {}],
               !.clueActive = {},
               !.currentCellKey = NoKey,
               !.focused = NoKey]

\* findClueForCell: the index of the first clue of the list holding the
\* cell, 0 for null
findClueForCell(d, row, col, direction) ==
  LET list == d.puzzle.clues[direction]
      hits == {k \in 1..Len(list) :
                 \E p \in 1..Len(list[k].cells) :
                   list[k].cells[p].row = row /\ list[k].cells[p].col = col}
  IN IF hits = {} THEN 0 ELSE firstOf(hits)

updateHighlights(d) ==
  LET cleared == [d EXCEPT !.classList = [k \in DOMAIN d.cellMap |->
                                            d.classList[k] \ HighlightClasses],
                           !.clueActive = {}]
      k0 == d.currentCellKey
  IN IF d.puzzle = NoPuzzle \/ k0 = NoKey \/ k0 \notin DOMAIN d.cellMap
       THEN cleared
       ELSE LET meta == d.cellMap[k0]
                own == findClueForCell(d, meta.row, meta.col, d.currentDirection)
                other == IF d.currentDirection = "across" THEN "down" ELSE "across"
                otherClue == findClueForCell(d, meta.row, meta.col, other)
                dir == IF own = 0 /\ otherClue # 0 THEN other ELSE d.currentDirection
                clue == IF own # 0 THEN own ELSE otherClue
                active == [cleared EXCEPT !.classList[k0] = @ \cup {"cw-cell-active"},
                                          !.currentDirection = dir]
            IN IF clue = 0
                 THEN active
                 ELSE LET list == d.puzzle.clues[dir]
                          cells == list[clue].cells
                          lit == {keyFor(cells[p].row, cells[p].col) : p \in 1..Len(cells)}
                          same == {k \in 1..Len(list) : list[k].number = list[clue].number}
                      IN [active EXCEPT
                            !.classList = [k \in DOMAIN d.cellMap |->
                                             IF k \in lit
                                               THEN active.classList[k] \cup {"cw-cell-word-highlight"}
                                               ELSE active.classList[k]],
                            !.clueActive = {<<dir, firstOf(same)>>}]

\* input.focus(): the focus listener runs unless the input has the focus
focus(d, k) ==
  IF d.focused = k
    THEN d
    ELSE updateHighlights([d EXCEPT !.focused = k, !.currentCellKey = k])

focusFirstCellOfClue(d, direction, clue) ==
  LET cells == d.puzzle.clues[direction][clue].cells
  IN IF Len(cells) = 0 \/ keyFor(cells[1].row, cells[1].col) \notin DOMAIN d.cellMap
       THEN d
       ELSE LET k == keyFor(cells[1].row, cells[1].col)
            IN focus([d EXCEPT !.currentCellKey = k], k)

\* mutant: the walk gives up at the first block instead of passing it
RECURSIVE moveLoop_stopsAtBlock(_, _, _, _, _)
moveLoop_stopsAtBlock(d, r, c, deltaRow, deltaCol) ==
  IF r < 0 \/ c < 0 \/ r >= d.puzzle.rows \/ c >= d.puzzle.cols
    THEN NoKey
    ELSE IF keyFor(r, c) \notin DOMAIN d.cellMap
           THEN NoKey
           ELSE keyFor(r, c)

\* the loop of moveFocus: the first cell of cellMap from (r, c) on, NoKey
\* once the walk leaves the grid
RECURSIVE moveLoop(_, _, _, _, _)
moveLoop(d, r, c, deltaRow, deltaCol) ==
  IF r < 0 \/ c < 0 \/ r >= d.puzzle.rows \/ c >= d.puzzle.cols
    THEN NoKey
    ELSE IF keyFor(r, c) \notin DOMAIN d.cellMap
           THEN moveLoop(d, r + deltaRow, c + deltaCol, deltaRow, deltaCol)
           ELSE keyFor(r, c)

moveFocus(d, deltaRow, deltaCol) ==
  IF d.currentCellKey = NoKey \/ d.puzzle = NoPuzzle
    THEN d
    ELSE LET next == moveLoop(d, d.currentCellKey[1] + deltaRow,
                              d.currentCellKey[2] + deltaCol, deltaRow, deltaCol)
         IN IF next = NoKey THEN d ELSE focus([d EXCEPT !.currentCellKey = next], next)

moveWithinWord(d, k, step) ==
  IF d.puzzle = NoPuzzle
    THEN d
    ELSE LET meta == d.cellMap[k]
             clue == findClueForCell(d, meta.row, meta.col, d.currentDirection)
         IN IF clue = 0
              THEN moveFocus(d, step, 0)
              ELSE LET cells == d.puzzle.clues[d.currentDirection][clue].cells
                       idx == firstOf({p \in 1..Len(cells) :
                                         cells[p].row = meta.row /\ cells[p].col = meta.col})
                       nextIndex == idx + step
                   IN IF nextIndex < 1 \/ nextIndex > Len(cells)
                        THEN d
                        ELSE LET target == keyFor(cells[nextIndex].row, cells[nextIndex].col)
                             IN IF target \in DOMAIN d.cellMap
                                  THEN focus([d EXCEPT !.currentCellKey = target], target)
                                  ELSE d

handleKeyDown(d, k, pressed) ==
  CASE pressed = "ArrowUp" -> moveFocus([d EXCEPT !.currentDirection = "down"], -1, 0)
    [] pressed = "ArrowDown" -> moveFocus([d EXCEPT !.currentDirection = "down"], 1, 0)
    [] pressed = "ArrowLeft" -> moveFocus([d EXCEPT !.currentDirection = "across"], 0, -1)
    [] pressed = "ArrowRight" -> moveFocus([d EXCEPT !.currentDirection = "across"], 0, 1)
    [] pressed = "Backspace" -> IF d.value[k] = "" THEN moveWithinWord(d, k, -1) ELSE d
    [] OTHER -> d

\* mutant: the letter typed is also stored in the cell record of the puzzle
handleInput_storesInCell(d, k, raw) ==
  LET val == normalise(raw)
      typed == [d EXCEPT !.value[k] = val, !.puzzle.grid[k].solution = val]
      moved == IF val # "" /\ d.cellMap[k].solution # ""
                 THEN moveWithinWord(typed, k, 1)
                 ELSE typed
  IN showStatus(moved, "", "none")

handleInput(d, k, raw) ==
  LET val == normalise(raw)
      typed == [d EXCEPT !.value[k] = val]
      moved == IF val # "" /\ d.cellMap[k].solution # ""
                 THEN moveWithinWord(typed, k, 1)
                 ELSE typed
  IN showStatus(moved, "", "none")

getAllFilled(d) ==
  [k \in DOMAIN d.cellMap |->
     [row |-> d.cellMap[k].row, col |-> d.cellMap[k].col,
      val |-> toUpperCase(d.value[k]), solution |-> d.cellMap[k].solution]]

\* mutant: wrong letters are reported before empty cells
cmdCheckAll_incorrectFirst(d) ==
  LET filled == getAllFilled(d)
      allFilled == \A k \in DOMAIN filled : filled[k].val # ""
      anyIncorrect == \E k \in DOMAIN filled :
                        filled[k].val # "" /\ filled[k].val # filled[k].solution
      marked == [d EXCEPT !.classList = [k \in DOMAIN d.cellMap |->
                   LET base == d.classList[k] \ {"cw-cell-correct", "cw-cell-incorrect"}
                   IN IF filled[k].val = ""
                        THEN base
                        ELSE IF filled[k].val = filled[k].solution
                               THEN base \cup {"cw-cell-correct"}
                               ELSE base \cup {"cw-cell-incorrect"}]]
  IN IF anyIncorrect
       THEN showStatus(marked, "There are some incorrect letters.", "error")
       ELSE IF ~allFilled
              THEN showStatus(marked, "Some cells are still empty.", "error")
              ELSE showStatus(marked, "Perfect! Puzzle completed.", "ok")

cmdCheckAll(d) ==
  LET filled == getAllFilled(d)
      allFilled == \A k \in DOMAIN filled : filled[k].val # ""
      anyIncorrect == \E k \in DOMAIN filled :
                        filled[k].val # "" /\ filled[k].val # filled[k].solution
      marked == [d EXCEPT !.classList = [k \in DOMAIN d.cellMap |->
                   LET base == d.classList[k] \ {"cw-cell-correct", "cw-cell-incorrect"}
                   IN IF filled[k].val = ""
                        THEN base
                        ELSE IF filled[k].val = filled[k].solution
                               THEN base \cup {"cw-cell-correct"}
                               ELSE base \cup {"cw-cell-incorrect"}]]
  IN IF ~allFilled
       THEN showStatus(marked, "Some cells are still empty.", "error")
       ELSE IF anyIncorrect
              THEN showStatus(marked, "There are some incorrect letters.", "error")
              ELSE showStatus(marked, "Perfect! Puzzle completed.", "ok")

getCurrentClue(d) ==
  IF d.currentCellKey = NoKey \/ d.puzzle = NoPuzzle
    THEN 0
    ELSE findClueForCell(d, d.currentCellKey[1], d.currentCellKey[2], d.currentDirection)

cmdRevealLetter(d) ==
  LET clue == getCurrentClue(d)
  IN IF clue = 0
       THEN d
       ELSE LET cells == d.puzzle.clues[d.currentDirection][clue].cells
                open == {p \in 1..Len(cells) :
                           LET k == keyFor(cells[p].row, cells[p].col)
                           IN /\ k \in DOMAIN d.cellMap
                              /\ \/ d.value[k] = ""
                                 \/ toUpperCase(d.value[k]) # d.cellMap[k].solution}
            IN IF open = {}
                 THEN d
                 ELSE LET pos == cells[firstOf(open)]
                          k == keyFor(pos.row, pos.col)
                          revealed == [d EXCEPT
                                         !.value[k] = d.cellMap[k].solution,
                                         !.classList[k] = (@ \ {"cw-cell-incorrect"})
                                                            \cup {"cw-cell-correct"},
                                         !.currentCellKey = k]
                      IN showStatus(focus(revealed, k), "Revealed one letter.", "ok")

cmdRevealWord(d) ==
  LET clue == getCurrentClue(d)
  IN IF clue = 0
       THEN d
       ELSE LET cells == d.puzzle.clues[d.currentDirection][clue].cells
                span == {keyFor(cells[p].row, cells[p].col) : p \in 1..Len(cells)}
                         \cap DOMAIN d.cellMap
                revealed == [d EXCEPT
                               !.value = [k \in DOMAIN d.cellMap |->
                                            IF k \in span THEN d.cellMap[k].solution
                                                          ELSE d.value[k]],
                               !.classList = [k \in DOMAIN d.cellMap |->
                                                IF k \in span
                                                  THEN (d.classList[k] \ {"cw-cell-incorrect"})
                                                         \cup {"cw-cell-correct"}
                                                  ELSE d.classList[k]]]
                k1 == keyFor(cells[1].row, cells[1].col)
                moved == IF k1 \in DOMAIN d.cellMap
                           THEN focus([revealed EXCEPT !.currentCellKey = k1], k1)
                           ELSE revealed
            IN showStatus(moved, "Revealed the current word.", "ok")

cmdClear(d) ==
  showStatus([d EXCEPT !.value = [k \in DOMAIN d.cellMap |-> ""],
                       !.classList = [k \in DOMAIN d.cellMap |->
                                        d.classList[k] \ HighlightClasses]],
             "Cleared all entries.", "none")

\* the state a handler leaves, everything else of the model kept
Handled(d) ==
  /\ SetPage(d)
  /\ UNCHANGED <<entries, gridVars, order, pc, error, written>>

\* loadPuzzle: the fetch of the written file succeeds
LoadPuzzle ==
  /\ pc = "done"
  /\ written
  /\ \E d \in {showStatus(initPuzzle(Page, puzzle), "Loaded puzzle", "ok")} : SetPage(d)
  /\ pc' = "page"
  /\ UNCHANGED <<entries, gridVars, order, error, written>>

\* loadPuzzle: no file was written, the fetch fails and the catch reports it
LoadFailed ==
  /\ pc \in {"exit", "error"}
  /\ \E d \in {showStatus(Page, "Could not load puzzle", "error")} : SetPage(d)
  /\ pc' = "page"
  /\ UNCHANGED <<entries, gridVars, order, error, written>>

\* the user moves the focus into a cell (Tab, or the first half of a click)
FocusCell ==
  /\ pc = "page"
  /\ \E k \in DOMAIN cellMap :
       /\ focused # k
       /\ \E d \in {focus(Page, k)} : Handled(d)

\* the focus leaves the cells (a click on a button, a clue or the page)
Blur ==
  /\ pc = "page"
  /\ focused # NoKey
  /\ \E d \in {[Page EXCEPT !.focused = NoKey]} : Handled(d)

\* the click listener of a cell, after the focus listener
ClickCell ==
  /\ pc = "page"
  /\ \E k \in DOMAIN cellMap :
       \E d \in {updateHighlights([focus(Page, k) EXCEPT !.currentCellKey = k])} :
         Handled(d)

KeyDown ==
  /\ pc = "page"
  /\ focused # NoKey
  /\ \E pressed \in ArrowKeys \cup {"Backspace"} :
       \E d \in {handleKeyDown(Page, focused, pressed)} : Handled(d)

\* the input event: a character typed over the cell, or its letter deleted
Input ==
  /\ pc = "page"
  /\ focused # NoKey
  /\ \E raw \in TypedChars \cup {""} :
       /\ raw = "" => value[focused] # ""
       /\ \E d \in {handleInput([Page EXCEPT !.value[focused] = raw], focused, raw)} :
            Handled(d)

\* the click listener of a clue item
ClueClick ==
  /\ pc = "page"
  /\ \E direction \in {"across", "down"} :
       \E clue \in 1..Len(puzzle.clues[direction]) :
         \E d \in {updateHighlights(
                     focusFirstCellOfClue([Page EXCEPT !.currentDirection = direction],
                                          direction, clue))} :
           Handled(d)

CheckAll ==
  /\ pc = "page"
  /\ \E d \in {cmdCheckAll(Page)} : Handled(d)

RevealLetter ==
  /\ pc = "page"
  /\ \E d \in {cmdRevealLetter(Page)} : Handled(d)

RevealWord ==
  /\ pc = "page"
  /\ \E d \in {cmdRevealWord(Page)} : Handled(d)

Clear ==
  /\ pc = "page"
  /\ \E d \in {cmdClear(Page)} : Handled(d)

NextPage ==
  \/ Next
  \/ LoadPuzzle
  \/ LoadFailed
  \/ FocusCell
  \/ Blur
  \/ ClickCell
  \/ KeyDown
  \/ Input
  \/ ClueClick
  \/ CheckAll
  \/ RevealLetter
  \/ RevealWord
  \/ Clear

\* the csv files the page is opened on: none, two that build (the second
\* gives A C A / C # T, a block between two cells of a row) and one that
\* aborts the build
PageEntryLists ==
  {<<>>, <<<<"A", "C">>, <<"C", "A">>>>, <<<<"A", "A">>, <<"C", "C">>>>,
   <<ACA, <<"A", "C">>, <<"A", "T">>>>}

InitPage == InitFrom(PageEntryLists)

SpecPage == InitPage /\ [][NextPage]_vars

TypeOK ==
  /\ pc \in {"main", "exit", "buildGrid", "write", "done", "error", "page",
            "canPlaceOk", "canPlaceNull", "bestFound", "bestNull"}
  /\ written \in BOOLEAN

\* ------------------------------------------------------------------ claims
Returned == pc \in {"write", "done"}

BuildGridReturned == pc = "buildGrid" /\ order = <<>>

PlacedIndexes == {placed[k].index : k \in 1..Len(placed)}

\* the coordinate of letter i (0-based) of a placement
spanCell(p, i) == <<cellRow(p.row, p.dir, i), cellCol(p.col, p.dir, i)>>

\* C1: for every non-empty entry list buildGrid completes without throwing
\* and returns exactly one placement per entry; an entry without a crossing
\* candidate is committed by the fallback instead of aborting the build.
C1_BuildGridPlacesEveryEntry ==
  Len(entries) > 0 =>
    /\ error.kind # "InvalidPlacement"
    /\ BuildGridReturned =>
         /\ Len(placed) = Len(entries)
         /\ \A i \in 0..(Len(entries) - 1) :
              Cardinality({k \in 1..Len(placed) : placed[k].index = i}) = 1

\* C2: when bestPlacement returns null on a non-empty grid, the loop body
\* commits the entry across at (maxRow + 2, minCol), bounds taken before the
\* commit, and no cell of it coincides with or touches a lettered coordinate.
C2_FallbackCommits ==
  [][(pc = "buildGrid" /\ order # <<>> /\ size(grid) > 0
      /\ ~bestPlacement(entries[order[1].idx + 1].answer).found)
     => LET index == order[1].idx
            answer == entries[index + 1].answer
            p == [index |-> index, row |-> maxRow + 2, col |-> minCol,
                  dir |-> "across", answer |-> answer]
        IN /\ placed' = Append(placed, p)
           /\ \A i \in 0..(Len(answer) - 1) :
                LET rc == spanCell(p, i)
                IN /\ grid'.at[rc] = answer[i + 1]
                   /\ ~has(rc[1], rc[2])
                   /\ ~has(rc[1] - 1, rc[2]) /\ ~has(rc[1] + 1, rc[2])
                   /\ ~has(rc[1], rc[2] - 1) /\ ~has(rc[1], rc[2] + 1)]_vars

\* C3: in every returned puzzle each clue has as many cells as the answer of
\* the entry whose clue text it carries, the cells are contiguous and increase
\* by 1 along the clue's axis with the other coordinate constant, and the
\* solution letters at those cells spell that answer.
ClueSpells(clue, dir) ==
  \E i \in 1..Len(entries) :
    /\ entries[i].clue = clue.text
    /\ LET a == entries[i].answer
       IN /\ Len(clue.cells) = Len(a)
          /\ \A k \in 1..Len(clue.cells) :
               /\ clue.cells[k].row = clue.cells[1].row + (IF dir = "down" THEN k - 1 ELSE 0)
               /\ clue.cells[k].col = clue.cells[1].col + (IF dir = "across" THEN k - 1 ELSE 0)
               /\ <<clue.cells[k].row, clue.cells[k].col>> \in DOMAIN puzzle.grid
               /\ puzzle.grid[<<clue.cells[k].row, clue.cells[k].col>>].solution = a[k]

C3_CluesSpellAnswers ==
  Returned =>
    /\ \A k \in 1..Len(puzzle.clues.across) : ClueSpells(puzzle.clues.across[k], "across")
    /\ \A k \in 1..Len(puzzle.clues.down) : ClueSpells(puzzle.clues.down[k], "down")

C3_Witness ==
  /\ pc = "done"
  /\ Len(puzzle.clues.across) >= 1
  /\ Len(puzzle.clues.down) >= 1

\* C4: in every returned puzzle each entry is referenced by exactly one clue;
\* when some entry is the start of no run, buildJson throws the coverage
\* error listing exactly the unused answers and no puzzle file is written.
ClueCount(i) ==
  Cardinality({k \in 1..Len(puzzle.clues.across) :
                 puzzle.clues.across[k].text = entries[i].clue})
  + Cardinality({k \in 1..Len(puzzle.clues.down) :
                   puzzle.clues.down[k].text = entries[i].clue})

\* the placement begins a run of at least two letters along its direction
BeginsRun(p) ==
  IF p.dir = "across"
    THEN ~has(p.row, p.col - 1) /\ has(p.row, p.col + 1)
    ELSE ~has(p.row - 1, p.col) /\ has(p.row + 1, p.col)

Unused(i) == \A k \in 1..Len(placed) : placed[k].index = i - 1 => ~BeginsRun(placed[k])

UnusedAnswers ==
  LET idxs == SelectSeq([i \in 1..Len(entries) |-> i], LAMBDA i : Unused(i))
  IN [k \in 1..Len(idxs) |-> entries[idxs[k]].answer]

C4_Coverage ==
  /\ Returned => \A i \in 1..Len(entries) : ClueCount(i) = 1
  /\ written => Returned /\ error = NoError
  /\ error.kind = "NotAllUsed" =>
       /\ error.missing = UnusedAnswers
       /\ error.missing # <<>>
       /\ puzzle = NoPuzzle
       /\ ~written
  /\ (pc = "error" /\ error.kind \notin {"InvalidPlacement", "DuplicateStart",
                                         "MissingAcross", "MissingDown"}
      /\ \E i \in 1..Len(entries) : Unused(i))
       => error.kind = "NotAllUsed"

C4_Witness ==
  /\ pc = "error"
  /\ error.kind = "NotAllUsed"
  /\ Len(error.missing) >= 1
  /\ Len(entries) >= 2

\* C5: buildGrid never commits two placements with the same (row, col,
\* direction), so buildJson never aborts with "Duplicate start placement".
C5_NoDuplicateStart ==
  /\ \A k, l \in 1..Len(placed) :
       k # l => <<placed[k].row, placed[k].col, placed[k].dir>>
                  # <<placed[l].row, placed[l].col, placed[l].dir>>
  /\ error.kind # "DuplicateStart"

\* C6: for entries [CAT 'Feline pet', ACE 'Top card'] CAT is placed across
\* at (0,0) and ACE down at (0,1); the down candidate at (-1,0) has an equal
\* score and is not chosen; the puzzle is the 3x3 grid C A T / # C # / # E #
\* with number 1 at (0,0), number 2 at (0,1), one across and one down clue.
ScenarioEntries ==
  <<[answer |-> CAT, clue |-> "Feline pet"], [answer |-> ACE, clue |-> "Top card"]>>

LetterCell(r, c, ch, n) ==
  [row |-> r, col |-> c, solution |-> ch, isBlock |-> FALSE, number |-> n]

BlockCell(r, c) ==
  [row |-> r, col |-> c, solution |-> NoLetter, isBlock |-> TRUE, number |-> NoNumber]

ScenarioPuzzle ==
  [rows |-> 3, cols |-> 3,
   grid |-> (<<0, 0>> :> LetterCell(0, 0, "C", 1)) @@ (<<0, 1>> :> LetterCell(0, 1, "A", 2))
            @@ (<<0, 2>> :> LetterCell(0, 2, "T", NoNumber))
            @@ (<<1, 0>> :> BlockCell(1, 0)) @@ (<<1, 1>> :> LetterCell(1, 1, "C", NoNumber))
            @@ (<<1, 2>> :> BlockCell(1, 2))
            @@ (<<2, 0>> :> BlockCell(2, 0)) @@ (<<2, 1>> :> LetterCell(2, 1, "E", NoNumber))
            @@ (<<2, 2>> :> BlockCell(2, 2)),
   clues |-> [across |-> <<[number |-> 1, text |-> "Feline pet",
                            cells |-> <<[row |-> 0, col |-> 0], [row |-> 0, col |-> 1],
                                        [row |-> 0, col |-> 2]>>]>>,
              down |-> <<[number |-> 2, text |-> "Top card",
                          cells |-> <<[row |-> 0, col |-> 1], [row |-> 1, col |-> 1],
                                      [row |-> 2, col |-> 1]>>]>>]]

C6_CatAceScenario ==
  entries = ScenarioEntries =>
    /\ pc # "error"
    /\ Len(placed) >= 1 =>
         placed[1] = [index |-> 0, row |-> 0, col |-> 0, dir |-> "across", answer |-> CAT]
    /\ (pc = "buildGrid" /\ Len(placed) = 1) =>
         /\ canPlace(ACE, -1, 0, "down").ok
         /\ canPlace(ACE, -1, 0, "down").score = canPlace(ACE, 0, 1, "down").score
    /\ Len(placed) >= 2 =>
         placed[2] = [index |-> 1, row |-> 0, col |-> 1, dir |-> "down", answer |-> ACE]
    /\ (BuildGridReturned \/ Returned) => Len(placed) = 2
    /\ Returned => puzzle = ScenarioPuzzle

C6_Witness == entries = ScenarioEntries /\ pc = "done" /\ written

\* C7: a coordinate that holds a letter never has it changed by a later
\* commit, and after every commit the letters along the span of every
\* committed placement spell its entry's answer.
SpansSpell ==
  \A k \in 1..Len(placed) :
    /\ placed[k].answer = entries[placed[k].index + 1].answer
    /\ \A i \in 0..(Len(placed[k].answer) - 1) :
         /\ spanCell(placed[k], i) \in DOMAIN grid.at
         /\ grid.at[spanCell(placed[k], i)] = placed[k].answer[i + 1]

LettersKept ==
  \A rc \in DOMAIN grid.at : rc \in DOMAIN grid'.at /\ grid'.at[rc] = grid.at[rc]

C7_LettersConsistent == [][LettersKept /\ SpansSpell']_vars

Span(p) == {spanCell(p, i) : i \in 0..(Len(p.answer) - 1)}

C7_Witness ==
  \E k, l \in 1..Len(placed) :
    /\ k < l
    /\ placed[k].dir # placed[l].dir
    /\ Span(placed[k]) \cap Span(placed[l]) # {}

EntryLen(i) == Len(entries[i + 1].answer)

Before(i, j) == EntryLen(i) > EntryLen(j) \/ (EntryLen(i) = EntryLen(j) /\ i < j)

C9_CommitOrder ==
  /\ (Len(entries) > 0 /\ pc # "main") => Len(placed) >= 1
  /\ \A k, l \in 1..Len(placed) :
       k < l => Before(placed[k].index, placed[l].index)
  /\ \A k \in 1..Len(placed) :
       /\ placed[k].index \in 0..(Len(entries) - 1)
       /\ placed[k].answer = entries[placed[k].index + 1].answer
       /\ \A j \in (0..(Len(entries) - 1)) \ PlacedIndexes : Before(placed[k].index, j)
  /\ Len(placed) >= 1 =>
       /\ placed[1].row = 0 /\ placed[1].col = 0 /\ placed[1].dir = "across"
       /\ \A j \in 0..(Len(entries) - 1) :
            j # placed[1].index => Before(placed[1].index, j)

C9_Witness ==
  /\ Len(placed) >= 3
  /\ placed[1].index # 0
  /\ EntryLen(placed[2].index) = EntryLen(placed[3].index)

\* C10: in every returned puzzle the clue numbers are exactly 1..K, given in
\* ascending row-major order to exactly the lettered cells that start an
\* across or a down run; a cell starting both carries one number used by
\* both clues; numbers ascend strictly within clues.across and within
\* clues.down; each clue's number is the number on its first cell.
Lettered(r, c) == <<r, c>> \in DOMAIN puzzle.grid /\ ~puzzle.grid[<<r, c>>].isBlock

AcrossStart(r, c) == Lettered(r, c) /\ ~Lettered(r, c - 1) /\ Lettered(r, c + 1)

DownStart(r, c) == Lettered(r, c) /\ ~Lettered(r - 1, c) /\ Lettered(r + 1, c)

Starts == {rc \in DOMAIN puzzle.grid : AcrossStart(rc[1], rc[2]) \/ DownStart(rc[1], rc[2])}

RowMajorLess(a, b) == a[1] < b[1] \/ (a[1] = b[1] /\ a[2] < b[2])

FirstCell(clue) == <<clue.cells[1].row, clue.cells[1].col>>

Ascending(clues) ==
  \A k, l \in 1..Len(clues) : k < l => clues[k].number < clues[l].number

C10_Numbering ==
  Returned =>
    /\ \A rc \in DOMAIN puzzle.grid :
         puzzle.grid[rc].number # NoNumber <=> rc \in Starts
    /\ {puzzle.grid[rc].number : rc \in Starts} = 1..Cardinality(Starts)
    /\ \A a, b \in Starts :
         RowMajorLess(a, b) => puzzle.grid[a].number < puzzle.grid[b].number
    /\ Ascending(puzzle.clues.across)
    /\ Ascending(puzzle.clues.down)
    /\ \A k \in 1..Len(puzzle.clues.across) :
         LET clue == puzzle.clues.across[k]
         IN /\ Len(clue.cells) >= 1
            /\ AcrossStart(FirstCell(clue)[1], FirstCell(clue)[2])
            /\ clue.number = puzzle.grid[FirstCell(clue)].number
    /\ \A k \in 1..Len(puzzle.clues.down) :
         LET clue == puzzle.clues.down[k]
         IN /\ Len(clue.cells) >= 1
            /\ DownStart(FirstCell(clue)[1], FirstCell(clue)[2])
            /\ clue.number = puzzle.grid[FirstCell(clue)].number
    /\ \A rc \in Starts :
         /\ AcrossStart(rc[1], rc[2]) =>
              Cardinality({k \in 1..Len(puzzle.clues.across) :
                             FirstCell(puzzle.clues.across[k]) = rc}) = 1
         /\ DownStart(rc[1], rc[2]) =>
              Cardinality({k \in 1..Len(puzzle.clues.down) :
                             FirstCell(puzzle.clues.down[k]) = rc}) = 1

C10_Witness ==
  /\ pc = "done"
  /\ Cardinality(Starts) >= 2
  /\ \E rc \in Starts : AcrossStart(rc[1], rc[2]) /\ DownStart(rc[1], rc[2])

\* C11: in every returned puzzle rows = maxRow - minRow + 1 and cols =
\* maxCol - minCol + 1, both positive, the grid has exactly rows x cols
\* cells, and the cell at (r, c) is a block exactly when the sparse grid
\* holds no letter at (r + minRow, c + minCol); otherwise its solution is the
\* single letter stored there.
C11_DenseGrid ==
  Returned =>
    /\ puzzle.rows = maxRow - minRow + 1
    /\ puzzle.cols = maxCol - minCol + 1
    /\ puzzle.rows > 0 /\ puzzle.cols > 0
    /\ DOMAIN puzzle.grid = (0..(puzzle.rows - 1)) \X (0..(puzzle.cols - 1))
    /\ \A rc \in DOMAIN puzzle.grid :
         LET cell == puzzle.grid[rc]
             src == <<rc[1] + minRow, rc[2] + minCol>>
         IN /\ cell.row = rc[1] /\ cell.col = rc[2]
            /\ cell.isBlock <=> src \notin DOMAIN grid.at
            /\ ~cell.isBlock => cell.solution = grid.at[src] /\ cell.solution # NoLetter
            /\ cell.isBlock => cell.solution = NoLetter

C11_Witness ==
  /\ pc = "done"
  /\ minRow < 0 \/ minCol < 0
  /\ \E rc \in DOMAIN puzzle.grid : puzzle.grid[rc].isBlock
  /\ \E rc \in DOMAIN puzzle.grid : ~puzzle.grid[rc].isBlock

\* C13: after every commit each maximal horizontal (vertical) run of two or
\* more lettered cells is exactly the span of a committed across (down)
\* placement starting at the run's first cell; the cells right before the
\* start and right after the end of every committed placement of length >= 2
\* are empty; buildJson never throws "Missing across/down entry".
SpanIsRun(p) ==
  /\ \A i \in 0..(Len(p.answer) - 1) : spanCell(p, i) \in DOMAIN grid.at
  /\ spanCell(p, -1) \notin DOMAIN grid.at
  /\ spanCell(p, Len(p.answer)) \notin DOMAIN grid.at

RunHasPlacement(rc, dir) ==
  \E k \in 1..Len(placed) :
    /\ placed[k].row = rc[1] /\ placed[k].col = rc[2] /\ placed[k].dir = dir
    /\ Len(placed[k].answer) >= 2
    /\ SpanIsRun(placed[k])

C13_RunsArePlacements ==
  /\ \A rc \in DOMAIN grid.at :
       /\ (~has(rc[1], rc[2] - 1) /\ has(rc[1], rc[2] + 1)) => RunHasPlacement(rc, "across")
       /\ (~has(rc[1] - 1, rc[2]) /\ has(rc[1] + 1, rc[2])) => RunHasPlacement(rc, "down")
  /\ \A k \in 1..Len(placed) : Len(placed[k].answer) >= 2 => SpanIsRun(placed[k])
  /\ error.kind \notin {"MissingAcross", "MissingDown"}

C13_Witness ==
  /\ Returned
  /\ Len(placed) >= 3
  /\ \E k, l \in 1..Len(placed) :
       /\ placed[k].dir = "across" /\ placed[l].dir = "down"
       /\ Len(placed[k].answer) >= 2 /\ Len(placed[l].answer) >= 2

\* C14: bestPlacement(answer) returns null exactly when no candidate aligning
\* some answer[i] with an existing equal letter passes canPlace; otherwise it
\* returns the candidate of maximum score, and among those of maximum score
\* the first in iteration order (answer index ascending, then lettered cells
\* in insertion order, then across before down).
NextAnswer == entries[order[1].idx + 1].answer

\* the m-th candidate in iteration order, m in 1..2 * Len(answer) * size(grid)
CandidateAt(answer, m) ==
  LET n == (m - 1) \div 2
      i == n \div size(grid)
      cellKey == grid.keys[(n % size(grid)) + 1]
      dir == IF m % 2 = 1 THEN "across" ELSE "down"
  IN [aligned |-> grid.at[cellKey] = answer[i + 1],
      row |-> IF dir = "across" THEN cellKey[1] ELSE cellKey[1] - i,
      col |-> IF dir = "across" THEN cellKey[2] - i ELSE cellKey[2],
      dir |-> dir]

ValidCandidates(answer) ==
  {m \in 1..(2 * Len(answer) * size(grid)) :
     LET cand == CandidateAt(answer, m)
     IN cand.aligned /\ canPlace(answer, cand.row, cand.col, cand.dir).ok}

CandidateScore(answer, m) ==
  LET cand == CandidateAt(answer, m)
  IN canPlace(answer, cand.row, cand.col, cand.dir).score

\* what bestPlacement returns for the answer the loop has reached
BestIsFirstMaximum ==
  \E answer \in {NextAnswer} :
    \E valid \in {ValidCandidates(answer)} :
      \E best \in {bestPlacement(answer)} :
        /\ best.found <=> valid # {}
        /\ best.found =>
             \E m \in valid :
               /\ best.row = CandidateAt(answer, m).row
               /\ best.col = CandidateAt(answer, m).col
               /\ best.dir = CandidateAt(answer, m).dir
               /\ best.score = CandidateScore(answer, m)
               /\ \A o \in valid :
                    /\ CandidateScore(answer, o) <= best.score
                    /\ CandidateScore(answer, o) = best.score => m <= o

\* C14, on every iteration of the loop of buildGrid, where bestPlacement is
\* called: null exactly when no aligned candidate passes canPlace, else the
\* first candidate of maximum score in iteration order
C14_BestPlacement ==
  [][(pc = "buildGrid" /\ order # <<>>) => BestIsFirstMaximum]_vars

\* a later candidate has a greater score than the first valid one
C14_Witness ==
  /\ pc = "buildGrid" /\ order # <<>>
  /\ LET answer == NextAnswer
         valid == ValidCandidates(answer)
     IN \E m, o \in valid :
          /\ m < o
          /\ CandidateScore(answer, m) < CandidateScore(answer, o)
          /\ \A q \in valid : m <= q

\* C15: whenever canPlace succeeds, its score is intersections * 1000 - area
\* - 5 * |width - height|, intersections being the number of target
\* coordinates already holding the matching letter and area, width, height
\* those of the smallest box containing the current bounds and every cell of
\* the candidate; the bounds it returns are the bounds buildGrid holds right
\* after that candidate is committed.
SetMin(S) == CHOOSE x \in S : \A y \in S : x <= y
SetMax(S) == CHOOSE x \in S : \A y \in S : x >= y

CandidateBox(answer, row, col, dir) ==
  LET rows == {minRow, maxRow} \cup {cellRow(row, dir, i) : i \in 0..(Len(answer) - 1)}
      cols == {minCol, maxCol} \cup {cellCol(col, dir, i) : i \in 0..(Len(answer) - 1)}
  IN [newMinRow |-> SetMin(rows), newMaxRow |-> SetMax(rows),
      newMinCol |-> SetMin(cols), newMaxCol |-> SetMax(cols)]

Crossings(answer, row, col, dir) ==
  Cardinality({i \in 0..(Len(answer) - 1) :
                 get(cellRow(row, dir, i), cellCol(col, dir, i)) = answer[i + 1]})

ScoreAsSpecified(answer, row, col, dir) ==
  LET check == canPlace(answer, row, col, dir)
      box == CandidateBox(answer, row, col, dir)
      height == box.newMaxRow - box.newMinRow + 1
      width == box.newMaxCol - box.newMinCol + 1
      gap == IF width >= height THEN width - height ELSE height - width
  IN check.ok =>
       /\ check.intersections = Crossings(answer, row, col, dir)
       /\ check.bounds = box
       /\ check.score = check.intersections * 1000 - width * height - 5 * gap

\* every candidate the search evaluates for the next answer
SearchScores ==
  (pc = "buildGrid" /\ order # <<>>) =>
    \A m \in 1..(2 * Len(NextAnswer) * size(grid)) :
      LET cand == CandidateAt(NextAnswer, m)
      IN cand.aligned => ScoreAsSpecified(NextAnswer, cand.row, cand.col, cand.dir)

C15_ScoreAndBounds ==
  [][/\ SearchScores
     /\ Len(placed') > Len(placed) =>
          LET p == placed'[Len(placed')]
              check == canPlace(p.answer, p.row, p.col, p.dir)
          IN /\ check.ok
             /\ ScoreAsSpecified(p.answer, p.row, p.col, p.dir)
             /\ check.bounds = [newMinRow |-> minRow', newMaxRow |-> maxRow',
                                newMinCol |-> minCol', newMaxCol |-> maxCol']]_vars

\* a committed crossing whose box is not square and wider than the old bounds
C15_Witness ==
  /\ Len(placed) >= 2
  /\ (maxRow - minRow) # (maxCol - minCol)
  /\ minRow < 0
  /\ \E k \in 1..Len(placed) : placed[k].dir = "down"

\* C17: across any sequence of commits minRow and minCol never increase,
\* maxRow and maxCol never decrease, and after every commit the bounds
\* contain every lettered coordinate of the sparse grid.
BoundsContainLetters ==
  \A rc \in DOMAIN grid.at :
    /\ minRow <= rc[1] /\ rc[1] <= maxRow
    /\ minCol <= rc[2] /\ rc[2] <= maxCol

C17_BoundsWiden ==
  [][/\ minRow' <= minRow /\ minCol' <= minCol
     /\ maxRow' >= maxRow /\ maxCol' >= maxCol
     /\ BoundsContainLetters']_vars

C17_Witness ==
  /\ Len(placed) >= 3
  /\ minCol < 0
  /\ maxRow > 0

HasLetterConflict(a) ==
  \E i \in 0..(Len(a.answer) - 1) :
    get(cellRow(a.row, a.dir, i), cellCol(a.col, a.dir, i)) \notin {NoLetter, a.answer[i + 1]}

HasSideTouch(a) ==
  /\ ~endsBlocked(a.answer, a.row, a.col, a.dir)
  /\ ~HasLetterConflict(a)
  /\ \E i \in 0..(Len(a.answer) - 1) :
       /\ ~has(cellRow(a.row, a.dir, i), cellCol(a.col, a.dir, i))
       /\ sideTouch(cellRow(a.row, a.dir, i), cellCol(a.col, a.dir, i), a.dir)

HasNoCrossing(a) ==
  /\ ~endsBlocked(a.answer, a.row, a.col, a.dir)
  /\ ~HasLetterConflict(a)
  /\ ~HasSideTouch(a)
  /\ Crossings(a.answer, a.row, a.col, a.dir) = 0

ClosureReturned == {"canPlaceOk", "canPlaceNull", "bestFound", "bestNull"}

C18_SearchIsReadOnly ==
  [][/\ pc' \in ClosureReturned => UNCHANGED gridVars
     /\ gridVars' # gridVars =>
          /\ Len(placed') = Len(placed) + 1
          /\ SubSeq(placed', 1, Len(placed)) = placed
          /\ LET p == placed'[Len(placed')]
             IN /\ ~placeThrows(p.answer, p.row, p.col, p.dir)
                /\ placeWordAt(p.index, p.answer, p.row, p.col, p.dir)]_vars

C18_Witness ==
  /\ pc = "canPlaceOk"
  /\ size(grid) > 0
  /\ Len(placed) >= 2

\* C19: the builder copy of src/app.js satisfies coverage: whenever its
\* buildJson returns a puzzle, every input entry has exactly one clue.
C19_AppCoverage ==
  Returned => \A i \in 1..Len(entries) : ClueCount(i) = 1

\* C20: after initPuzzle no UI event (focus, click, key down, input, clue
\* click, Check, Reveal letter, Reveal word, Clear) changes the loaded puzzle
\* record; the handlers change only input values, CSS classes, the status
\* text, currentCellKey and currentDirection (and which cell has the focus).
C20_HandlersKeepPuzzle ==
  [][pc = "page" => /\ puzzle' = puzzle
                    /\ cellMap' = cellMap
                    /\ UNCHANGED <<entries, gridVars, order, pc, error, written>>]_vars

\* letters typed and revealed, a check made, both cursors moved
C20_Witness ==
  /\ pc = "page"
  /\ puzzle # NoPuzzle
  /\ \E k \in DOMAIN value : value[k] # "" /\ value[k] # cellMap[k].solution
  /\ \E k \in DOMAIN classList : "cw-cell-correct" \in classList[k]
  /\ currentDirection = "down"
  /\ currentCellKey # NoKey

\* C21: cmdCheckAll takes solution as the ground truth: it reports
\* "Perfect! Puzzle completed." exactly when every non-block cell holds a
\* non-empty value equal to its solution, "Some cells are still empty."
\* whenever some non-block cell is empty (even if another is wrong), and it
\* marks a filled cell correct exactly when its upper-cased value equals its
\* solution, incorrect otherwise.
OpenCells == {rc \in DOMAIN puzzle.grid : ~puzzle.grid[rc].isBlock}

Solved(rc) == value[rc] # "" /\ toUpperCase(value[rc]) = puzzle.grid[rc].solution

C21_CheckUsesSolution ==
  [][CheckAll =>
       /\ status'.text = "Perfect! Puzzle completed." <=> \A rc \in OpenCells : Solved(rc)
       /\ (\E rc \in OpenCells : value[rc] = "") =>
            status'.text = "Some cells are still empty."
       /\ \A rc \in OpenCells :
            /\ "cw-cell-correct" \in classList'[rc] <=> Solved(rc)
            /\ "cw-cell-incorrect" \in classList'[rc] <=> (value[rc] # "" /\ ~Solved(rc))]_vars

\* a check made with one cell empty, one right and one wrong
C21_Witness ==
  /\ pc = "page"
  /\ status.text = "Some cells are still empty."
  /\ \E rc \in OpenCells : value[rc] = ""
  /\ \E rc \in OpenCells : "cw-cell-correct" \in classList[rc] /\ Solved(rc)
  /\ \E rc \in OpenCells : "cw-cell-incorrect" \in classList[rc] /\ value[rc] # ""

\* C22: after any sequence of commits in buildGrid no 2x2 square of
\* coordinates is entirely lettered.
Square(r, c) == {<<r, c>>, <<r, c + 1>>, <<r + 1, c>>, <<r + 1, c + 1>>}

LetteredIn(r, c) == Cardinality(Square(r, c) \cap DOMAIN grid.at)

C22_NoLetteredSquare ==
  \A r \in minRow..maxRow : \A c \in minCol..maxCol : LetteredIn(r, c) < 4

\* three commits and a square with three of its four cells lettered
C22_Witness ==
  /\ Len(placed) >= 3
  /\ \E r \in minRow..maxRow : \E c \in minCol..maxCol : LetteredIn(r, c) = 3

\* C23: whenever buildGrid returns, the lettered coordinates are connected
\* under 4-neighbour adjacency: no region of letters is cut off from the
\* seed word.
Adjacent(a, b) == Abs(a[1] - b[1]) + Abs(a[2] - b[2]) = 1

RECURSIVE Region(_, _)
Region(reached, cells) ==
  LET more == {b \in cells \ reached : \E a \in reached : Adjacent(a, b)}
  IN IF more = {} THEN reached ELSE Region(reached \cup more, cells)

Connected(cells) == cells = {} \/ Region({grid.keys[1]}, cells) = cells

HasSingleLetterAnswer == \E i \in 1..Len(entries) : Len(entries[i].answer) = 1

C24_SingleLetterAborts ==
  HasSingleLetterAnswer =>
    /\ ~Returned
    /\ puzzle = NoPuzzle
    /\ ~written
    /\ pc # "exit"
    /\ BuildGridReturned => buildJson.error # NoError

\* the one-letter answer was committed on a crossing beside longer words and
\* buildJson aborted on the coverage test
C24_Witness ==
  /\ HasSingleLetterAnswer
  /\ pc = "error"
  /\ error.kind = "NotAllUsed"
  /\ Len(placed) = Len(entries)
  /\ Len(entries) >= 3
  /\ \E i \in 1..Len(entries) : Len(entries[i].answer) >= 3

\* C25: for every loaded puzzle, every current cell and every unit step
\* (dr, dc), moveFocus terminates; afterwards currentCellKey is the nearest
\* non-block cell strictly in that direction inside the grid if there is one
\* and is unchanged otherwise, so currentCellKey is always null or the key of
\* a non-block cell.
ArrowStep(pressed) ==
  CASE pressed = "ArrowUp" -> <<-1, 0>>
    [] pressed = "ArrowDown" -> <<1, 0>>
    [] pressed = "ArrowLeft" -> <<0, -1>>
    [] pressed = "ArrowRight" -> <<0, 1>>

\* the non-block cells strictly ahead of cell cur along step
Ahead(cur, step) ==
  {rc \in OpenCells :
     \E n \in 1..(puzzle.rows + puzzle.cols) :
       rc = <<cur[1] + n * step[1], cur[2] + n * step[2]>>}

Distance(a, b) == Abs(a[1] - b[1]) + Abs(a[2] - b[2])

Nearest(cur, step) ==
  CHOOSE rc \in Ahead(cur, step) :
    \A other \in Ahead(cur, step) : Distance(cur, rc) <= Distance(cur, other)

C25_MoveFocus ==
  /\ [](currentCellKey = NoKey \/ currentCellKey \in OpenCells)
  /\ [][\A pressed \in ArrowKeys :
          (/\ pc = "page"
           /\ focused # NoKey
           /\ Handled(handleKeyDown(Page, focused, pressed)))
          => currentCellKey' = IF Ahead(currentCellKey, ArrowStep(pressed)) = {}
                                 THEN currentCellKey
                                 ELSE Nearest(currentCellKey, ArrowStep(pressed))]_vars

\* the cursor stands on a cell that has a block right behind it and a
\* non-block cell behind the block
C25_Witness ==
  /\ pc = "page"
  /\ currentCellKey \in OpenCells
  /\ focused = currentCellKey
  /\ \E step \in {<<0, 1>>, <<0, -1>>, <<1, 0>>, <<-1, 0>>} :
       LET behind == <<currentCellKey[1] - step[1], currentCellKey[2] - step[2]>>
           beyond == <<currentCellKey[1] - 2 * step[1], currentCellKey[2] - 2 * step[2]>>
       IN /\ behind \in DOMAIN puzzle.grid
          /\ puzzle.grid[behind].isBlock
          /\ beyond \in OpenCells

====
